---- MODULE Spec2Model ----
(***************************************************************************)
(* Model of the air-quality pipeline's two command-line programs:          *)
(*   - src/ingestion/ingest_weather_api_data.py  (load_config, the         *)
(*     per-district fetch / write / upload loop), and                      *)
(*   - src/scripts/deployment/deploy.py          (SnowflakeDeployer, main). *)
(*                                                                         *)
(* Python strings are modelled as sequences of one-character strings so    *)
(* that lower(), replace(), strftime() and path concatenation are computed *)
(* character by character, as the interpreter computes them.               *)
(*                                                                         *)
(* Four specifications share the variables:                                *)
(*   Spec         one ingestion run (__main__ of the ingestion script)     *)
(*   ConfigSpec   load_config over every environment / .env combination    *)
(*   CaptureSpec  repeated captures of one location (lines 96-112)         *)
(*   DeploySpec   one run of the deployment tool (main of deploy.py)       *)
(***************************************************************************)
EXTENDS Integers, Sequences, FiniteSets, TLC

VARIABLES
    \* ---- process environment and .env file (load_config) ----
    environ,          \* os.environ: key -> value, None when the key is absent
    dotenv_file,      \* the .env file: key -> value, None when the key is absent
    dotenv_loaded,    \* TRUE once load_dotenv() has been called
    environ0,         \* history: os.environ as the process was started
    config,           \* load_config's outcome: [state |-> "unloaded" | "raised" | "returned", value]
    \* ---- one ingestion run (get_lima_air_quality_data) ----
    pc,               \* position of the ingestion process
    sf_session,       \* "none" | "open"
    idx,              \* index into districts of the loop variable d (0 before the loop)
    timestamp,        \* local timestamp of the current iteration
    data,             \* local data (parsed JSON body); Unbound before the first assignment
    file_name,        \* local file_name; Unbound before the first assignment
    partition,        \* local partition; Unbound before the first assignment
    local_file_path,  \* local local_file_path; Unbound before the first assignment
    requested,        \* history: the districts an HTTP request was issued for, in order
    iter_log,         \* history of the current iteration: the operations performed in it
    handled,          \* which except clause ended the latest failed iteration ("none" after a clean one)
    \* ---- repeated captures of one location ----
    loc,              \* index into districts of the captured location
    captures,         \* history: the captures taken so far
    fs,               \* local filesystem: path -> content
    \* ---- one run of the deployment tool (main of deploy.py) ----
    args,             \* the parsed command line
    dpc,              \* position of the deployment process in main
    session,          \* deployer.session: "none" | "open" | "closed"
    success,          \* main's local success (read only after it is assigned)
    ret,              \* main's return value, -1 until a return statement has run
    calls,            \* history: the deployer methods main has called, with their results
    stage_fn,         \* the stage the next five variables belong to
    dir_listing,      \* what glob("*.sql") yielded
    sql_files,        \* local ddl_files / dml_files
    file_idx,         \* position of the stage's for loop in sql_files
    file_log,         \* history: the files the stage handed to execute_sql_file, with results
    last_exec,        \* history: the latest execute_sql_file call
    verified,         \* history: the latest verify_deployment call
    disconnects,      \* history: how many times disconnect was called
    \* ---- one run of a dashboard page script (pages 02 and 03) ----
    page,             \* which page script runs
    ppc,              \* position of the page script
    country_option,   \* the script's variable country_option
    city_option,      \* the script's variable city_option
    district_option,  \* the script's variable district_option (page 03)
    date_option,      \* the script's variable date_option
    pollutant_option, \* the script's variable pollutant_option
    widgets,          \* history: the selectboxes rendered in this run, in order
    queries           \* history: the queries issued in this run, in order

None == "None"

\* a local variable no statement has assigned yet
Unbound == << "unbound" >>

deploy_vars ==
    << args, dpc, session, success, ret, calls, stage_fn, dir_listing, sql_files,
       file_idx, file_log, last_exec, verified, disconnects >>
ingest_locals == << timestamp, data, file_name, partition, local_file_path >>
ingest_vars == << pc, sf_session, idx, ingest_locals, requested, iter_log, handled >>
config_vars == << environ, environ0, dotenv_file, dotenv_loaded, config >>
capture_vars == << loc, captures, fs >>
page_vars ==
    << page, ppc, country_option, city_option, district_option, date_option,
       pollutant_option, widgets, queries >>
vars == << config_vars, ingest_vars, capture_vars, deploy_vars, page_vars >>

(***************************************************************************)
(* str helpers                                                             *)
(***************************************************************************)
UpperChars ==
    <<"A","B","C","D","E","F","G","H","I","J","K","L","M","N","O","P","Q","R","S","T","U","V","W","X","Y","Z">>
LowerChars ==
    <<"a","b","c","d","e","f","g","h","i","j","k","l","m","n","o","p","q","r","s","t","u","v","w","x","y","z">>
DigitChars ==
    <<"0","1","2","3","4","5","6","7","8","9">>

IsUpper(c) == \E i \in 1..Len(UpperChars) : UpperChars[i] = c

\* str.lower() on one character
LowerChar(c) ==
    IF IsUpper(c)
    THEN LowerChars[CHOOSE i \in 1..Len(UpperChars) : UpperChars[i] = c]
    ELSE c

\* str.lower()
lower(s) == [i \in 1..Len(s) |-> LowerChar(s[i])]

\* str.replace(old, new) for one-character old and new
replace(s, old, new) == [i \in 1..Len(s) |-> IF s[i] = old THEN new ELSE s[i]]

\* zero-padded decimal rendering of n in w digits (strftime's %Y, %m, %d, %H, %M, %S)
RECURSIVE ZeroPad(_, _)
ZeroPad(n, w) ==
    IF w = 0 THEN << >>
    ELSE ZeroPad(n \div 10, w - 1) \o << DigitChars[(n % 10) + 1] >>

(***************************************************************************)
(* The fixed location list of get_lima_air_quality_data                    *)
(***************************************************************************)
country == <<"P","e","r","u">>
city == <<"L","i","m","a">>
districts ==
    << <<"A","n","c","o","n">>,
       <<"A","t","e">>,
       <<"B","a","r","r","a","n","c","o">>,
       <<"B","r","e","n","a">>,
       <<"C","a","r","a","b","a","y","l","l","o">>,
       <<"C","h","a","c","l","a","c","a","y","o">>,
       <<"C","h","o","r","r","i","l","l","o","s">>,
       <<"C","i","e","n","e","g","u","i","l","l","a">>,
       <<"C","o","m","a","s">>,
       <<"E","l"," ","A","g","u","s","t","i","n","o">>,
       <<"I","n","d","e","p","e","n","d","e","n","c","i","a">>,
       <<"J","e","s","u","s"," ","M","a","r","i","a">>,
       <<"L","a"," ","M","o","l","i","n","a">>,
       <<"L","a"," ","V","i","c","t","o","r","i","a">>,
       <<"L","i","m","a">>,
       <<"L","i","n","c","e">>,
       <<"L","o","s"," ","O","l","i","v","o","s">>,
       <<"L","u","r","i","g","a","n","c","h","o">>,
       <<"L","u","r","i","n">>,
       <<"M","a","g","d","a","l","e","n","a"," ","d","e","l"," ","M","a","r">>,
       <<"M","i","r","a","f","l","o","r","e","s">>,
       <<"P","a","c","h","a","c","a","m","a","c">>,
       <<"P","u","c","u","s","a","n","a">>,
       <<"P","u","e","b","l","o"," ","L","i","b","r","e">>,
       <<"P","u","e","n","t","e"," ","P","i","e","d","r","a">>,
       <<"P","u","n","t","a"," ","H","e","r","m","o","s","a">>,
       <<"P","u","n","t","a"," ","N","e","g","r","a">>,
       <<"R","i","m","a","c">>,
       <<"S","a","n"," ","B","a","r","t","o","l","o">>,
       <<"S","a","n"," ","B","o","r","j","a">>,
       <<"S","a","n"," ","I","s","i","d","r","o">>,
       <<"S","a","n"," ","J","u","a","n"," ","d","e"," ","L","u","r","i","g","a","n","c","h","o">>,
       <<"S","a","n"," ","J","u","a","n"," ","d","e"," ","M","i","r","a","f","l","o","r","e","s">>,
       <<"S","a","n"," ","L","u","i","s">>,
       <<"S","a","n"," ","M","a","r","t","i","n"," ","d","e"," ","P","o","r","r","e","s">>,
       <<"S","a","n"," ","M","i","g","u","e","l">>,
       <<"S","a","n","t","a"," ","A","n","i","t","a">>,
       <<"S","a","n","t","a"," ","M","a","r","i","a"," ","d","e","l"," ","M","a","r">>,
       <<"S","a","n","t","a"," ","R","o","s","a">>,
       <<"S","a","n","t","i","a","g","o"," ","d","e"," ","S","u","r","c","o">>,
       <<"S","u","r","q","u","i","l","l","o">>,
       <<"V","i","l","l","a"," ","E","l"," ","S","a","l","v","a","d","o","r">>,
       <<"V","i","l","l","a"," ","M","a","r","i","a"," ","d","e","l"," ","T","r","i","u","n","f","o">> >>

(***************************************************************************)
(* Capture instants: datetime.datetime.now(datetime.timezone.utc)          *)
(***************************************************************************)
MaxDay == 2
MaxSecond == 1

Instants ==
    [year : {2024}, month : {3}, day : 1..MaxDay,
     hour : {0, 23}, minute : {59}, second : 0..MaxSecond,
     microsecond : {0, 999999}]

\* mutation: the seconds are left out of the format, "%Y%m%dT%H%MZ"
strftime_compact_minutes(t) ==
    ZeroPad(t.year, 4) \o ZeroPad(t.month, 2) \o ZeroPad(t.day, 2) \o <<"T">>
      \o ZeroPad(t.hour, 2) \o ZeroPad(t.minute, 2) \o <<"Z">>

\* timestamp.strftime("%Y%m%dT%H%M%SZ")
strftime_compact(t) ==
    ZeroPad(t.year, 4) \o ZeroPad(t.month, 2) \o ZeroPad(t.day, 2) \o <<"T">>
      \o ZeroPad(t.hour, 2) \o ZeroPad(t.minute, 2) \o ZeroPad(t.second, 2) \o <<"Z">>

\* timestamp.strftime("%Y"), ("%m"), ("%d")
strftime_year(t) == ZeroPad(t.year, 4)
strftime_month(t) == ZeroPad(t.month, 2)

\* mutation: "%H" for "%d"
strftime_day_hour(t) == ZeroPad(t.hour, 2)

strftime_day(t) == ZeroPad(t.day, 2)

\* f'weather_api_measurement_{timestamp_string}.json'
FileName(timestamp_string) ==
    <<"w","e","a","t","h","e","r","_","a","p","i","_","m","e","a","s","u","r","e","m","e","n","t","_">>
      \o timestamp_string \o <<".","j","s","o","n">>

\* name.lower().replace(" ", "-")
Normalize(name) == replace(lower(name), " ", "-")

\* f'{country...}/{city...}/{d...}/{year}/{month}/{day}/'
PartitionOf(d, year, month, day) ==
    Normalize(country) \o <<"/">> \o Normalize(city) \o <<"/">> \o Normalize(d) \o <<"/">>
      \o year \o <<"/">> \o month \o <<"/">> \o day \o <<"/">>

\* Path.cwd() / 'data' / partition / file_name
Cwd == <<"/","a","p","p">>
LocalFilePath(part, fname) ==
    Cwd \o <<"/","d","a","t","a","/">> \o part \o fname

\* f'@dev_db.stage_sch.raw_stg/{partition}'
StgLocation(part) ==
    <<"@","d","e","v","_","d","b",".","s","t","a","g","e","_","s","c","h",".","r","a","w","_","s","t","g","/">> \o part

\* f'list {stg_location}{file_name}.gz'
LstQuery(stg_location, fname) ==
    <<"l","i","s","t"," ">> \o stg_location \o fname \o <<".","g","z">>

(***************************************************************************)
(* load_config                                                             *)
(***************************************************************************)
Keys == {"API_TOKEN", "API_URL", "SNOWFLAKE_ACCOUNT", "SNOWFLAKE_USER", "SNOWFLAKE_PASSWORD"}

\* Python truthiness of an Optional[str]: None and "" are falsy
Truthy(v) == v # None /\ v # ""

\* Python's `a or b`
PyOr(a, b) == IF Truthy(a) THEN a ELSE b

\* os.getenv(k)
getenv(env, k) == env[k]

\* mutation: load_dotenv(override=True)
load_dotenv_override(env, file) ==
    [k \in DOMAIN env |-> IF file[k] # None THEN file[k] ELSE env[k]]

\* load_dotenv(): python-dotenv's default override=False leaves every key that is
\* already in os.environ (even with an empty value) and adds the file's other keys
load_dotenv(env, file) ==
    [k \in DOMAIN env |-> IF env[k] = None THEN file[k] ELSE env[k]]

\* line 30: if not api_token or not api_url
NeedsFallback(api_token, api_url) == ~Truthy(api_token) \/ ~Truthy(api_url)

\* mutation: `and` for `or` in the final check
MissingRequired_and(api_token, api_url) == ~Truthy(api_token) /\ ~Truthy(api_url)

\* line 39: if not api_token or not api_url: raise RuntimeError
MissingRequired(api_token, api_url) == ~Truthy(api_token) \/ ~Truthy(api_url)

\* lines 23-48: the value load_config returns ("raised" for the RuntimeError), and
\* the process environment it leaves behind
load_config_env(env, file) ==
    IF NeedsFallback(getenv(env, "API_TOKEN"), getenv(env, "API_URL"))
    THEN load_dotenv(env, file)
    ELSE env

load_config_result(env, file) ==
    LET api_token0 == getenv(env, "API_TOKEN")
        api_url0   == getenv(env, "API_URL")
        fallback   == NeedsFallback(api_token0, api_url0)
        env1       == load_config_env(env, file)
        api_token  == IF fallback THEN PyOr(api_token0, getenv(env1, "API_TOKEN")) ELSE api_token0
        api_url    == IF fallback THEN PyOr(api_url0, getenv(env1, "API_URL")) ELSE api_url0
    IN  IF MissingRequired(api_token, api_url)
        THEN [state |-> "raised"]
        ELSE [state |-> "returned",
              value |-> [API_TOKEN          |-> api_token,
                         API_URL            |-> api_url,
                         SNOWFLAKE_ACCOUNT  |-> getenv(env1, "SNOWFLAKE_ACCOUNT"),
                         SNOWFLAKE_USER     |-> getenv(env1, "SNOWFLAKE_USER"),
                         SNOWFLAKE_PASSWORD |-> getenv(env1, "SNOWFLAKE_PASSWORD")]]

EnvVal ==
    [API_TOKEN |-> "env-token", API_URL |-> "env-url", SNOWFLAKE_ACCOUNT |-> "env-account",
     SNOWFLAKE_USER |-> "env-user", SNOWFLAKE_PASSWORD |-> "env-password"]
FileVal ==
    [API_TOKEN |-> "file-token", API_URL |-> "file-url", SNOWFLAKE_ACCOUNT |-> "file-account",
     SNOWFLAKE_USER |-> "file-user", SNOWFLAKE_PASSWORD |-> "file-password"]

\* every process environment: each key absent, empty or set
Environments ==
    { e \in [Keys -> {None, ""} \cup {EnvVal[k] : k \in Keys}] :
        \A k \in Keys : e[k] \in {None, "", EnvVal[k]} }

\* every .env file: each key absent, empty or set (no file at all: every key absent)
DotenvFiles ==
    { f \in [Keys -> {None, ""} \cup {FileVal[k] : k \in Keys}] :
        \A k \in Keys : f[k] \in {None, "", FileVal[k]} }

\* the environments an ingestion run is started in: everything in the environment
\* (the scheduled job), everything in .env (local development), nothing anywhere
ScheduledEnvironment == [env |-> EnvVal, file |-> [k \in Keys |-> None]]

RunEnvironments ==
    { ScheduledEnvironment,
      [env |-> [k \in Keys |-> None], file |-> FileVal],
      [env |-> [k \in Keys |-> None], file |-> [k \in Keys |-> None]] }

(***************************************************************************)
(* The ingestion process: __main__, then get_lima_air_quality_data         *)
(***************************************************************************)
NumDistricts == Len(districts)

\* the positions inside one iteration of `for d in districts`
DistrictPcs == {"request", "raise_for_status", "json", "write", "put", "list"}

\* the clock readings of one run: the run may cross midnight
RunInstants ==
    { t \in Instants : t.hour = 23 /\ t.second = 0 /\ t.microsecond = 0 }

\* f"{d}, {city}, {country}"
Query(d) == d \o <<",", " ">> \o city \o <<",", " ">> \o country

\* lines 141-142: config = load_config(); an uncaught RuntimeError ends the process
main_load_config ==
    /\ pc = "main"
    /\ config' = load_config_result(environ, dotenv_file)
    /\ dotenv_loaded' = NeedsFallback(getenv(environ, "API_TOKEN"), getenv(environ, "API_URL"))
    /\ environ' = load_config_env(environ, dotenv_file)
    /\ pc' = IF config'.state = "raised" THEN "crashed" ELSE "connect"
    /\ UNCHANGED << environ0, dotenv_file, sf_session, idx, ingest_locals, requested,
                    iter_log, handled, capture_vars, deploy_vars, page_vars >>

\* lines 80-86: sf_session = snowpark_basic_auth(config); on any exception, log and return
connect_session ==
    /\ pc = "connect"
    /\ \E ok \in BOOLEAN :
         IF ok
         THEN sf_session' = "open" /\ pc' = "loop"
         ELSE sf_session' = sf_session /\ pc' = "returned"
    /\ UNCHANGED << config_vars, idx, ingest_locals, requested, iter_log, handled,
                    capture_vars, deploy_vars, page_vars >>

\* mutation: the handlers `break` out of the loop instead of `continue`
skip_district_break(kind) ==
    /\ handled' = kind
    /\ pc' = "returned"

\* mutation: the handlers of the first try fall through to the upload
skip_district_falls_through(kind) ==
    /\ handled' = kind
    /\ pc' = "put"

\* lines 114-119, 135-136: the except clauses log and go on with the next district
skip_district(kind) ==
    /\ handled' = kind
    /\ pc' = "loop"

\* mutation: the loop stops one district short of the list
loop_header_short ==
    /\ pc = "loop"
    /\ IF idx < NumDistricts - 1
       THEN /\ idx' = idx + 1
            /\ iter_log' = << >>
            /\ pc' = "request"
       ELSE /\ pc' = "returned"
            /\ UNCHANGED << idx, iter_log >>
    /\ UNCHANGED << config_vars, sf_session, ingest_locals, requested, handled,
                    capture_vars, deploy_vars, page_vars >>

\* line 88: for d in districts; line 138 once the list is exhausted
loop_header ==
    /\ pc = "loop"
    /\ IF idx < NumDistricts
       THEN /\ idx' = idx + 1
            /\ iter_log' = << >>
            /\ pc' = "request"
       ELSE /\ pc' = "returned"
            /\ UNCHANGED << idx, iter_log >>
    /\ UNCHANGED << config_vars, sf_session, ingest_locals, requested, handled,
                    capture_vars, deploy_vars, page_vars >>

\* lines 91-101: build params, read the clock, requests.get
http_request ==
    /\ pc = "request"
    /\ \E t \in RunInstants : timestamp' = t
    /\ requested' = Append(requested, districts[idx])
    /\ iter_log' = Append(iter_log,
                     [op |-> "get", url |-> config.value.API_URL, key |-> {config.value.API_TOKEN},
                      q |-> Query(districts[idx]), aqi |-> "yes"])
    /\ \/ pc' = "raise_for_status" /\ UNCHANGED handled
       \/ skip_district("unexpected")        \* ConnectionError, Timeout, ...
    /\ UNCHANGED << config_vars, sf_session, idx, data, file_name, partition,
                    local_file_path, capture_vars, deploy_vars, page_vars >>

\* line 102: response.raise_for_status()
raise_for_status ==
    /\ pc = "raise_for_status"
    /\ \/ pc' = "json" /\ UNCHANGED handled   \* 2xx
       \/ skip_district("http")               \* requests.HTTPError
    /\ UNCHANGED << config_vars, sf_session, idx, ingest_locals, requested, iter_log,
                    capture_vars, deploy_vars, page_vars >>

\* line 103: data = response.json()
parse_json ==
    /\ pc = "json"
    /\ \/ /\ data' = [body_of |-> districts[idx], at |-> timestamp]
          /\ pc' = "write"
          /\ UNCHANGED handled
       \/ /\ skip_district("unexpected")      \* JSONDecodeError
          /\ UNCHANGED data
    /\ UNCHANGED << config_vars, sf_session, idx, timestamp, file_name, partition,
                    local_file_path, requested, iter_log, capture_vars, deploy_vars, page_vars >>

\* lines 105-112: name the file, create the directories, dump the body
write_local ==
    /\ pc = "write"
    /\ file_name' = FileName(strftime_compact(timestamp))
    /\ partition' = PartitionOf(districts[idx], strftime_year(timestamp),
                                strftime_month(timestamp), strftime_day(timestamp))
    /\ local_file_path' = LocalFilePath(partition', file_name')
    /\ \/ /\ iter_log' = Append(iter_log, [op |-> "write", path |-> local_file_path',
                                          content |-> data])
          /\ pc' = "put"
          /\ UNCHANGED handled
       \/ /\ skip_district("unexpected")      \* OSError from mkdir or open: no file
          /\ UNCHANGED iter_log
       \/ /\ skip_district("unexpected")      \* json.dump fails: a truncated file stays
          /\ iter_log' = Append(iter_log, [op |-> "write", path |-> local_file_path',
                                          content |-> "truncated"])
    /\ UNCHANGED << config_vars, sf_session, idx, timestamp, data, requested,
                    capture_vars, deploy_vars, page_vars >>

\* lines 122-125: sf_session.file.put(str(local_file_path), stg_location)
stage_put ==
    /\ pc = "put"
    /\ \/ /\ iter_log' = Append(iter_log, [op |-> "put", path |-> local_file_path,
                                          stage |-> StgLocation(partition)])
          /\ pc' = "list"
          /\ UNCHANGED handled
       \/ /\ skip_district("upload")
          /\ UNCHANGED iter_log
    /\ UNCHANGED << config_vars, sf_session, idx, ingest_locals, requested,
                    capture_vars, deploy_vars, page_vars >>

\* lines 128-133: sf_session.sql(lst_query).collect(), then the next district
stage_list ==
    /\ pc = "list"
    /\ \/ /\ iter_log' = Append(iter_log,
                           [op |-> "list", query |-> LstQuery(StgLocation(partition), file_name)])
          /\ handled' = "none"
          /\ pc' = "loop"
       \/ /\ skip_district("upload")
          /\ UNCHANGED iter_log
    /\ UNCHANGED << config_vars, sf_session, idx, ingest_locals, requested,
                    capture_vars, deploy_vars, page_vars >>

(***************************************************************************)
(* deploy.py: SnowflakeDeployer                                            *)
(***************************************************************************)
\* the characters of file names, in code-point order
CodePoints ==
    <<".","0","1","2","3","4","5","6","7","8","9","A","B","C","D","E","F","G","H","I","J","K","L","M","N","O","P","Q","R","S","T","U","V","W","X","Y","Z","_","a","b","c","d","e","f","g","h","i","j","k","l","m","n","o","p","q","r","s","t","u","v","w","x","y","z">>

Ord(c) == CHOOSE i \in 1..Len(CodePoints) : CodePoints[i] = c

\* a < b for two str (equally, for two paths of one directory)
RECURSIVE StrLess(_, _)
StrLess(a, b) ==
    IF a = << >> THEN b # << >>
    ELSE IF b = << >> THEN FALSE
    ELSE IF Ord(Head(a)) < Ord(Head(b)) THEN TRUE
    ELSE IF Ord(Head(a)) > Ord(Head(b)) THEN FALSE
    ELSE StrLess(Tail(a), Tail(b))

\* insert x into the sorted sequence s
RECURSIVE Insert(_, _)
Insert(x, s) ==
    IF s = << >> THEN << x >>
    ELSE IF StrLess(x, Head(s)) THEN << x >> \o s
    ELSE << Head(s) >> \o Insert(x, Tail(s))

\* sorted(...)
RECURSIVE sorted(_)
sorted(s) == IF s = << >> THEN << >> ELSE Insert(Head(s), sorted(Tail(s)))

\* the .sql files a directory may hold
SqlNames ==
    { <<"0","1","_","a",".","s","q","l">>,
      <<"0","2","_","b",".","s","q","l">>,
      <<"1","0","_","c",".","s","q","l">>,
      <<"2","_","d",".","s","q","l">> }

MaxFiles == 3

\* what dir.glob("*.sql") may yield: up to MaxFiles distinct files, in any order
Listings ==
    { s \in UNION { [1..n -> SqlNames] : n \in 0..MaxFiles } :
        \A i, j \in DOMAIN s : i # j => s[i] # s[j] }

Whitespace == {" ", "\t", "\n"}

\* str.split(sep) for a one-character sep
RECURSIVE split(_, _)
split(s, sep) ==
    IF \A i \in 1..Len(s) : s[i] # sep THEN << s >>
    ELSE LET k == CHOOSE i \in 1..Len(s) : s[i] = sep /\ \A j \in 1..(i - 1) : s[j] # sep
         IN  << SubSeq(s, 1, k - 1) >> \o split(SubSeq(s, k + 1, Len(s)), sep)

\* str.strip()
RECURSIVE strip(_)
strip(s) ==
    IF s = << >> THEN s
    ELSE IF Head(s) \in Whitespace THEN strip(Tail(s))
    ELSE IF s[Len(s)] \in Whitespace THEN strip(SubSeq(s, 1, Len(s) - 1))
    ELSE s

\* stmt.startswith('--')
IsComment(stmt) == Len(stmt) >= 2 /\ stmt[1] = "-" /\ stmt[2] = "-"

\* line 78: [stmt.strip() for stmt in sql_content.split(';') if stmt.strip()]
Statements(sql_content) ==
    LET parts == split(sql_content, ";")
        kept  == SelectSeq(parts, LAMBDA p : strip(p) # << >>)
    IN  [i \in 1..Len(kept) |-> strip(kept[i])]

\* the contents a .sql file may have
SqlContents ==
    { <<"a",";"," ","b"," ",";">>,
      <<"-","-","c","\n","a",";","b">>,
      <<" ",";","\n">> }

\* lines 80-89: the statements handed to session.sql(...).collect(), in order;
\* failing is the set of statement numbers whose execution raises
\* mutation: the first statement that raises ends the loop
RECURSIVE RunStatements_stops_on_raise(_, _, _)
RunStatements_stops_on_raise(statements, i, failing) ==
    IF i > Len(statements) THEN << >>
    ELSE IF IsComment(statements[i])
    THEN RunStatements_stops_on_raise(statements, i + 1, failing)
    ELSE IF i \in failing
    THEN << [n |-> i, stmt |-> statements[i], raised |-> TRUE] >>
    ELSE << [n |-> i, stmt |-> statements[i], raised |-> FALSE] >>
           \o RunStatements_stops_on_raise(statements, i + 1, failing)

RECURSIVE RunStatements(_, _, _)
RunStatements(statements, i, failing) ==
    IF i > Len(statements) THEN << >>
    ELSE IF IsComment(statements[i]) THEN RunStatements(statements, i + 1, failing)
    ELSE << [n |-> i, stmt |-> statements[i], raised |-> i \in failing] >>
           \o RunStatements(statements, i + 1, failing)

\* lines 69-96: execute_sql_file; readable is whether open()/read() succeed
execute_sql_file(file, readable, sql_content, failing) ==
    IF ~readable
    THEN [file |-> file, readable |-> FALSE, result |-> FALSE,
          statements |-> << >>, submitted |-> << >>]
    ELSE [file |-> file, readable |-> TRUE, result |-> TRUE,
          statements |-> Statements(sql_content),
          submitted |-> RunStatements(Statements(sql_content), 1, failing)]

\* the statements of sql_content that reach the session, by number
Executable(sql_content) ==
    { i \in 1..Len(Statements(sql_content)) : ~IsComment(Statements(sql_content)[i]) }

\* mutation: deploy_ddl goes on after a failed file
ddl_breaks_never(ok) == FALSE

\* lines 113-116: if not self.execute_sql_file(sql_file): success = False; break
ddl_breaks(ok) == ~ok

\* mutation: deploy_dml stops at a failed file the way deploy_ddl does
dml_breaks_on_failure(ok) == ~ok

\* lines 135-136: a failed DML file is logged and the loop goes on
dml_breaks(ok) == FALSE

\* lines 146-152
checks ==
    << "Databases", "Warehouses", "Stage Tables", "Clean Tables", "Consumption Tables" >>

MaxCount == 1

\* what one check's query can do: raise, or return 0..MaxCount rows
CheckOutcomes ==
    { [raised |-> TRUE, count |-> 0] } \cup { [raised |-> FALSE, count |-> n] : n \in 0..MaxCount }

\* mutation: the except clause logs the failed check and leaves all_passed alone
check_result_forgotten(all_passed, outcome) == all_passed

\* lines 156-162: the try/except around one check
check_result(all_passed, outcome) == IF outcome.raised THEN FALSE ELSE all_passed

\* lines 154-164: the loop of verify_deployment over outcomes, one per check
RECURSIVE verify_loop(_, _, _, _)
verify_loop(i, outcomes, all_passed, attempted) ==
    IF i > Len(checks)
    THEN [attempted |-> attempted, outcomes |-> outcomes, result |-> all_passed]
    ELSE verify_loop(i + 1, outcomes, check_result(all_passed, outcomes[i]),
                     Append(attempted, checks[i]))

verify_deployment(outcomes) == verify_loop(1, outcomes, TRUE, << >>)

\* spec: close_snowflake_session ends the warehouse session it is given
close_snowflake_session(s) == "closed"

\* lines 63-67: if self.session: close_snowflake_session(self.session)
disconnect(s) == IF s # "none" THEN close_snowflake_session(s) ELSE s

(***************************************************************************)
(* deploy.py: main                                                         *)
(***************************************************************************)
\* parse_args: the command lines
Args == [env : {"dev", "prod"}, skip_tests : BOOLEAN, ddl_only : BOOLEAN, verify_only : BOOLEAN]

Call(fn, result) == [fn |-> fn, result |-> result]

stage_vars == << stage_fn, dir_listing, sql_files, file_idx, file_log, last_exec >>

NoExec == [file |-> << >>, readable |-> FALSE, result |-> FALSE,
           statements |-> << >>, submitted |-> << >>]

\* the stage method has returned to main: its frame (locals and their history) is gone
stage_returned ==
    /\ stage_fn' = "none"
    /\ dir_listing' = << >>
    /\ sql_files' = << >>
    /\ file_idx' = 0
    /\ file_log' = << >>
    /\ last_exec' = NoExec

\* lines 216-218: deployer.connect(); get_snowflake_session returns a session or raises
main_connect ==
    /\ dpc = "connect"
    /\ \/ /\ session' = "open"
          /\ calls' = Append(calls, Call("connect", "True"))
          /\ dpc' = "dispatch"
          /\ UNCHANGED ret
       \/ /\ calls' = Append(calls, Call("connect", "False"))
          /\ ret' = 1
          /\ dpc' = "finally"
          /\ UNCHANGED session
    /\ UNCHANGED << args, success, stage_vars, verified, disconnects,
                    config_vars, ingest_vars, capture_vars, page_vars >>

\* line 221: if args.verify_only
main_dispatch ==
    /\ dpc = "dispatch"
    /\ dpc' = IF args.verify_only THEN "verify" ELSE "ddl_glob"
    /\ UNCHANGED << args, session, success, ret, calls, stage_vars, verified, disconnects,
                    config_vars, ingest_vars, capture_vars, page_vars >>

\* lines 104-111 (deploy_ddl) and 126-133 (deploy_dml): list the directory, sort,
\* return at once when it holds no file; listing the directory may raise OSError
stage_glob(fn, at, loop_pc, after_pc, empty_result) ==
    /\ dpc = at
    /\ \/ /\ calls' = Append(calls, Call(fn, "raised"))
          /\ dpc' = "except"
          /\ UNCHANGED << success, stage_vars >>
       \/ \E listing \in Listings :
            /\ stage_fn' = fn
            /\ dir_listing' = listing
            /\ sql_files' = sorted(listing)
            /\ file_idx' = 1
            /\ file_log' = << >>
            /\ UNCHANGED last_exec
            /\ IF listing = << >>
               THEN /\ success' = empty_result
                    /\ calls' = Append(calls, Call(fn, IF empty_result THEN "True" ELSE "False"))
                    /\ dpc' = after_pc
               ELSE /\ dpc' = loop_pc
                    /\ UNCHANGED << success, calls >>
    /\ UNCHANGED << args, session, ret, verified, disconnects,
                    config_vars, ingest_vars, capture_vars, page_vars >>

\* lines 112-118 (deploy_ddl) and 134-138 (deploy_dml): one pass through the loop
\* body, or the return once the loop has ended
stage_loop(fn, at, after_pc) ==
    /\ dpc = at
    /\ IF file_idx > Len(sql_files)
       THEN /\ success' = TRUE
            /\ calls' = Append(calls, Call(fn, "True"))
            /\ dpc' = after_pc
            /\ UNCHANGED stage_vars
       ELSE \E readable \in BOOLEAN, sql_content \in SqlContents :
            \E failing \in SUBSET Executable(sql_content) :
              LET x == execute_sql_file(sql_files[file_idx], readable, sql_content, failing) IN
              /\ last_exec' = x
              /\ file_log' = Append(file_log, [file |-> x.file, ok |-> x.result])
              /\ IF (IF fn = "deploy_ddl" THEN ddl_breaks(x.result) ELSE dml_breaks(x.result))
                 THEN /\ success' = FALSE
                      /\ calls' = Append(calls, Call(fn, "False"))
                      /\ dpc' = after_pc
                      /\ UNCHANGED file_idx
                 ELSE /\ file_idx' = file_idx + 1
                      /\ UNCHANGED << success, calls, dpc >>
              /\ UNCHANGED << stage_fn, dir_listing, sql_files >>
    /\ UNCHANGED << args, session, ret, verified, disconnects,
                    config_vars, ingest_vars, capture_vars, page_vars >>

deploy_ddl_glob == stage_glob("deploy_ddl", "ddl_glob", "ddl_loop", "after_ddl", FALSE)
deploy_ddl_loop == stage_loop("deploy_ddl", "ddl_loop", "after_ddl")
deploy_dml_glob == stage_glob("deploy_dml", "dml_glob", "dml_loop", "after_dml", TRUE)
deploy_dml_loop == stage_loop("deploy_dml", "dml_loop", "after_dml")

\* mutation: the data stage starts whatever the schema stage reported
main_after_ddl_ignores_success ==
    /\ dpc = "after_ddl"
    /\ dpc' = IF ~args.ddl_only THEN "dml_glob" ELSE "after_dml"
    /\ stage_returned
    /\ UNCHANGED << args, session, success, ret, calls, verified, disconnects,
                    config_vars, ingest_vars, capture_vars, page_vars >>

\* line 227: if success and not args.ddl_only
main_after_ddl ==
    /\ dpc = "after_ddl"
    /\ dpc' = IF success /\ ~args.ddl_only THEN "dml_glob" ELSE "after_dml"
    /\ stage_returned
    /\ UNCHANGED << args, session, success, ret, calls, verified, disconnects,
                    config_vars, ingest_vars, capture_vars, page_vars >>

\* mutation: verification follows the file stages whatever --skip-tests says
main_after_dml_ignores_skip_tests ==
    /\ dpc = "after_dml"
    /\ dpc' = IF success THEN "verify" ELSE "result"
    /\ stage_returned
    /\ UNCHANGED << args, session, success, ret, calls, verified, disconnects,
                    config_vars, ingest_vars, capture_vars, page_vars >>

\* line 231: if success and not args.skip_tests
main_after_dml ==
    /\ dpc = "after_dml"
    /\ dpc' = IF success /\ ~args.skip_tests THEN "verify" ELSE "result"
    /\ stage_returned
    /\ UNCHANGED << args, session, success, ret, calls, verified, disconnects,
                    config_vars, ingest_vars, capture_vars, page_vars >>

\* lines 222 and 233: success = deployer.verify_deployment()
main_verify ==
    /\ dpc = "verify"
    /\ \E outcomes \in [1..Len(checks) -> CheckOutcomes] :
         /\ verified' = verify_deployment(outcomes)
         /\ success' = verified'.result
         /\ calls' = Append(calls, Call("verify_deployment",
                                        IF verified'.result THEN "True" ELSE "False"))
    /\ dpc' = "result"
    /\ UNCHANGED << args, session, ret, stage_vars, disconnects,
                    config_vars, ingest_vars, capture_vars, page_vars >>

\* lines 235-244: return 0 if success else 1
main_result ==
    /\ dpc = "result"
    /\ ret' = IF success THEN 0 ELSE 1
    /\ dpc' = "finally"
    /\ UNCHANGED << args, session, success, calls, stage_vars, verified, disconnects,
                    config_vars, ingest_vars, capture_vars, page_vars >>

\* mutation: the exception handler reports a run that raised as successful
main_except_returns_zero ==
    /\ dpc = "except"
    /\ ret' = 0
    /\ dpc' = "finally"
    /\ UNCHANGED << args, session, success, calls, stage_vars, verified, disconnects,
                    config_vars, ingest_vars, capture_vars, page_vars >>

\* lines 246-248: except Exception: return 1
main_except ==
    /\ dpc = "except"
    /\ ret' = 1
    /\ dpc' = "finally"
    /\ UNCHANGED << args, session, success, calls, stage_vars, verified, disconnects,
                    config_vars, ingest_vars, capture_vars, page_vars >>

\* mutation: no finally clause, disconnect only at the end of a run without failure
main_finally_success_only ==
    /\ dpc = "finally"
    /\ session' = IF ret = 0 THEN disconnect(session) ELSE session
    /\ disconnects' = IF ret = 0 THEN disconnects + 1 ELSE disconnects
    /\ calls' = IF ret = 0 THEN Append(calls, Call("disconnect", "None")) ELSE calls
    /\ dpc' = "exited"
    /\ UNCHANGED << args, success, ret, stage_vars, verified,
                    config_vars, ingest_vars, capture_vars, page_vars >>

\* lines 250-251: finally: deployer.disconnect(); then main returns ret
main_finally ==
    /\ dpc = "finally"
    /\ session' = disconnect(session)
    /\ disconnects' = disconnects + 1
    /\ calls' = Append(calls, Call("disconnect", "None"))
    /\ dpc' = "exited"
    /\ UNCHANGED << args, success, ret, stage_vars, verified,
                    config_vars, ingest_vars, capture_vars, page_vars >>

(***************************************************************************)
(* Repeated captures of one location: lines 96-112 for d = districts[loc], *)
(* run after run, on a filesystem that outlives the runs                   *)
(***************************************************************************)
capture ==
    /\ Len(captures) < 2
    /\ \E t \in Instants :
         LET d      == districts[loc]
             fname  == FileName(strftime_compact(t))
             part   == PartitionOf(d, strftime_year(t), strftime_month(t), strftime_day(t))
             path   == LocalFilePath(part, fname)
             body   == Len(captures) + 1
         IN  /\ captures' = Append(captures,
                              [d |-> d, timestamp |-> t, partition |-> part,
                               file_name |-> fname, local_file_path |-> path, data |-> body])
             \* open(local_file_path, 'w') truncates whatever the path held
             /\ fs' = [p \in DOMAIN fs \cup {path} |-> IF p = path THEN body ELSE fs[p]]
    /\ UNCHANGED << loc, config_vars, ingest_vars, deploy_vars, page_vars >>

(***************************************************************************)
(* streamlit pages 02 (hourly city trend) and 03 (district detail): one    *)
(* run of the page script, top to bottom, and the rerun Streamlit starts   *)
(* after every interaction                                                 *)
(***************************************************************************)
HourlyCityPage == "02-air-quality-trend-city-hour-level"
DistrictPage   == "03-air-quality-map"

\* the value None of an option variable
PyNone == << None >>

\* page 02 line 14, page 03 line 14: the option variables start as ''
EmptyStr == << >>

\* what the DISTINCT queries of the views may return
CountryLists  == { << >>, << <<"P","e","r","u">> >>, << <<"P","e","r","u">>, <<"X">> >> }
CityLists     == { << >>, << <<"L","i","m","a">> >>, << <<"L","i","m","a">>, <<"Y">> >> }
DistrictLists == { << >>, << <<"L","i","n","c","e">> >>, << <<"L","i","n","c","e">>, <<"Z">> >> }
DateLists     == { << >>,
                   << <<"2","0","2","4","-","0","3","-","0","2">> >>,
                   << <<"2","0","2","4","-","0","3","-","0","2">>,
                      <<"2","0","2","4","-","0","3","-","0","1">> >> }

\* page 02 line 64, page 03 line 67
Pollutants ==
    << <<"P","M","2",".","5">>, <<"P","M","1","0">>, <<"S","O","2">>,
       <<"N","O","2">>, <<"C","O">>, <<"O","3">> >>

\* st.selectbox(label, options): the values it may return; None when there is
\* nothing to choose from
selectbox(options) ==
    IF options = << >> THEN {PyNone} ELSE { options[i] : i \in DOMAIN options }

\* page 02 lines 58 and 69, page 03 lines 61 and 72: date_option is not None
DateGuard(option) == option # PyNone

\* page 02 lines 30 and 45, page 03 lines 26, 36 and 47:
\* x_option is not None and len(x_option) > 1
LevelGuard(option) == option # PyNone /\ Len(option) > 1

Widget(label) == [label |-> label]

Issued(q, params) == [q |-> q, params |-> params]

\* page 02 lines 16-27, page 03 lines 16-23: the country query and its selectbox
page_country ==
    /\ ppc = "country"
    /\ \E country_list \in CountryLists : \E chosen \in selectbox(country_list) :
         country_option' = chosen
    /\ queries' = Append(queries, Issued("country", << >>))
    /\ widgets' = Append(widgets, Widget("Select Country"))
    /\ ppc' = "city"
    /\ UNCHANGED << page, city_option, district_option, date_option, pollutant_option,
                    config_vars, ingest_vars, capture_vars, deploy_vars >>

\* page 02 lines 30-43, page 03 lines 26-34: the city query and its selectbox
page_city ==
    /\ ppc = "city"
    /\ IF LevelGuard(country_option)
       THEN /\ \E city_list \in CityLists : \E chosen \in selectbox(city_list) :
                 city_option' = chosen
            /\ queries' = Append(queries, Issued("city", << country_option >>))
            /\ widgets' = Append(widgets, Widget("Select City"))
       ELSE UNCHANGED << city_option, queries, widgets >>
    /\ ppc' = IF page = DistrictPage THEN "district" ELSE "date"
    /\ UNCHANGED << page, country_option, district_option, date_option, pollutant_option,
                    config_vars, ingest_vars, capture_vars, deploy_vars >>

\* page 03 lines 36-45: the district query and its selectbox
page_district ==
    /\ ppc = "district"
    /\ IF LevelGuard(city_option)
       THEN /\ \E district_list \in DistrictLists : \E chosen \in selectbox(district_list) :
                 district_option' = chosen
            /\ queries' = Append(queries, Issued("district", << country_option, city_option >>))
            /\ widgets' = Append(widgets, Widget("Select District"))
       ELSE UNCHANGED << district_option, queries, widgets >>
    /\ ppc' = "date"
    /\ UNCHANGED << page, country_option, city_option, date_option, pollutant_option,
                    config_vars, ingest_vars, capture_vars, deploy_vars >>

\* page 02 lines 45-54, page 03 lines 47-57: the date query and its selectbox
page_date ==
    /\ ppc = "date"
    /\ IF LevelGuard(IF page = DistrictPage THEN district_option ELSE city_option)
       THEN /\ \E date_list \in DateLists : \E chosen \in selectbox(date_list) :
                 date_option' = chosen
            /\ queries' = Append(queries,
                             Issued("date", IF page = DistrictPage
                                            THEN << country_option, city_option, district_option >>
                                            ELSE << country_option, city_option >>))
            /\ widgets' = Append(widgets, Widget("Select Date"))
       ELSE UNCHANGED << date_option, queries, widgets >>
    /\ ppc' = "pollutant"
    /\ UNCHANGED << page, country_option, city_option, district_option, pollutant_option,
                    config_vars, ingest_vars, capture_vars, deploy_vars >>

\* page 02 lines 57-67, page 03 lines 60-70: the pollutant selectbox
page_pollutant ==
    /\ ppc = "pollutant"
    /\ IF DateGuard(date_option)
       THEN /\ \E chosen \in selectbox(Pollutants) : pollutant_option' = chosen
            /\ widgets' = Append(widgets, Widget("Select Pollutant to Visualize:"))
       ELSE /\ pollutant_option' = PyNone
            /\ UNCHANGED widgets
    /\ ppc' = "trend"
    /\ UNCHANGED << page, country_option, city_option, district_option, date_option, queries,
                    config_vars, ingest_vars, capture_vars, deploy_vars >>

\* page 02 lines 69-85, page 03 lines 72-96: the trend query
page_trend ==
    /\ ppc = "trend"
    /\ IF DateGuard(date_option) /\ pollutant_option # PyNone
       THEN queries' = Append(queries,
                         Issued("trend", IF page = DistrictPage
                                         THEN << country_option, city_option,
                                                 district_option, date_option >>
                                         ELSE << country_option, city_option, date_option >>))
       ELSE UNCHANGED queries
    /\ ppc' = "done"
    /\ UNCHANGED << page, country_option, city_option, district_option, date_option,
                    pollutant_option, widgets,
                    config_vars, ingest_vars, capture_vars, deploy_vars >>

\* an interaction makes Streamlit run the script again from its first line
\* (page 02 line 14, page 03 line 14)
page_rerun ==
    /\ ppc = "done"
    /\ country_option' = EmptyStr
    /\ city_option' = EmptyStr
    /\ district_option' = EmptyStr
    /\ date_option' = EmptyStr
    /\ pollutant_option' = PyNone
    /\ widgets' = << >>
    /\ queries' = << >>
    /\ ppc' = "country"
    /\ UNCHANGED << page, config_vars, ingest_vars, capture_vars, deploy_vars >>

(***************************************************************************)
(* Initial states and specifications                                       *)
(***************************************************************************)
InitIngestVars ==
    /\ pc = "main"
    /\ sf_session = "none"
    /\ idx = 0
    /\ timestamp = Unbound
    /\ data = Unbound
    /\ file_name = Unbound
    /\ partition = Unbound
    /\ local_file_path = Unbound
    /\ requested = << >>
    /\ iter_log = << >>
    /\ handled = "none"

InitCaptureVars ==
    /\ loc = 1
    /\ captures = << >>
    /\ fs = << >>

InitDeployVars ==
    /\ args \in Args
    /\ dpc = "connect"
    /\ session = "none"
    /\ success = FALSE
    /\ ret = -1
    /\ calls = << >>
    /\ stage_fn = "none"
    /\ dir_listing = << >>
    /\ sql_files = << >>
    /\ file_idx = 0
    /\ file_log = << >>
    /\ last_exec = NoExec
    /\ verified = [attempted |-> << >>, outcomes |-> << >>, result |-> FALSE]
    /\ disconnects = 0

\* the deployment tool is not running
IdleDeployVars ==
    /\ InitDeployVars
    /\ args = [env |-> "dev", skip_tests |-> FALSE, ddl_only |-> FALSE, verify_only |-> FALSE]

InitConfigVars(envs) ==
    /\ \E e \in envs : environ = e.env /\ dotenv_file = e.file
    /\ environ0 = environ
    /\ dotenv_loaded = FALSE
    /\ config = [state |-> "unloaded"]

\* one ingestion run
\* a page script at its first line
InitPageVars ==
    /\ page \in {HourlyCityPage, DistrictPage}
    /\ ppc = "country"
    /\ country_option = EmptyStr
    /\ city_option = EmptyStr
    /\ district_option = EmptyStr
    /\ date_option = EmptyStr
    /\ pollutant_option = PyNone
    /\ widgets = << >>
    /\ queries = << >>

\* no page is open
IdlePageVars ==
    /\ page = "none"
    /\ ppc = "idle"
    /\ country_option = EmptyStr
    /\ city_option = EmptyStr
    /\ district_option = EmptyStr
    /\ date_option = EmptyStr
    /\ pollutant_option = PyNone
    /\ widgets = << >>
    /\ queries = << >>

Init ==
    /\ InitConfigVars(RunEnvironments)
    /\ InitIngestVars
    /\ InitCaptureVars
    /\ IdleDeployVars
    /\ IdlePageVars

Next ==
    \/ main_load_config
    \/ connect_session
    \/ loop_header
    \/ http_request
    \/ raise_for_status
    \/ parse_json
    \/ write_local
    \/ stage_put
    \/ stage_list

Spec == Init /\ [][Next]_vars

\* load_config in every environment
ConfigInit ==
    /\ InitConfigVars({ [env |-> e, file |-> f] : e \in Environments, f \in DotenvFiles })
    /\ InitIngestVars
    /\ InitCaptureVars
    /\ IdleDeployVars
    /\ IdlePageVars

ConfigNext == main_load_config

ConfigSpec == ConfigInit /\ [][ConfigNext]_vars

\* captures of any one location
CaptureInit ==
    /\ InitConfigVars({ScheduledEnvironment})
    /\ InitIngestVars
    /\ loc \in 1..NumDistricts
    /\ captures = << >>
    /\ fs = << >>
    /\ IdleDeployVars
    /\ IdlePageVars

CaptureNext == capture

CaptureSpec == CaptureInit /\ [][CaptureNext]_vars

\* one run of the deployment tool; the process is sequential and every call
\* returns or raises, so a step that can be taken is taken
DeployInit ==
    /\ InitConfigVars({ScheduledEnvironment})
    /\ InitIngestVars
    /\ InitCaptureVars
    /\ InitDeployVars
    /\ IdlePageVars

DeployNext ==
    \/ main_connect
    \/ main_dispatch
    \/ deploy_ddl_glob
    \/ deploy_ddl_loop
    \/ main_after_ddl
    \/ deploy_dml_glob
    \/ deploy_dml_loop
    \/ main_after_dml
    \/ main_verify
    \/ main_result
    \/ main_except
    \/ main_finally

DeploySpec == DeployInit /\ [][DeployNext]_vars /\ WF_vars(DeployNext)

\* the two filter pages of the dashboard
PageInit ==
    /\ InitConfigVars({ScheduledEnvironment})
    /\ InitIngestVars
    /\ InitCaptureVars
    /\ IdleDeployVars
    /\ InitPageVars

PageNext ==
    \/ page_country
    \/ page_city
    \/ page_district
    \/ page_date
    \/ page_pollutant
    \/ page_trend
    \/ page_rerun

PageSpec == PageInit /\ [][PageNext]_vars

(***************************************************************************)
(* Properties of the ingestion run (Spec)                                  *)
(***************************************************************************)

\* C1: whatever per-district operation fails (request, status, JSON, local write,
\* put, list), control stays in the district or goes back to the loop header, the
\* header moves on to the next district of the list, and that district is requested:
\* every district after a failed one is still processed, in list order.
C1_LoopContinuesPastFailures ==
    [][ /\ (pc \in DistrictPcs => idx' = idx /\ pc' \in DistrictPcs \cup {"loop"})
        /\ (pc = "loop" /\ idx < NumDistricts => idx' = idx + 1 /\ pc' = "request")
        /\ (pc = "request" => requested' = Append(requested, districts[idx])) ]_vars

\* an earlier district failed and a later one has got as far as the stage listing
C1_Witness == pc = "list" /\ idx > 1 /\ handled = "unexpected"

\* C10 as stated: a run whose configuration loaded returns only after every district
\* has been requested, whichever operation of the run failed.
C10_ReturnsAfterAllDistricts == pc = "returned" => requested = districts

\* C10 amended: a run that established its warehouse session returns only after every
\* district has been requested, in order; a run whose session could not be
\* established returns without requesting any.
C10_ReturnsAfterAllDistrictsOnceConnected ==
    pc = "returned" =>
        IF sf_session = "open" THEN requested = districts ELSE requested = << >>

\* a connected run has returned although its last district failed to upload
C10_Witness ==
    pc = "returned" /\ sf_session = "open" /\ handled = "upload" /\ Len(iter_log) = 2

(***************************************************************************)
(* Properties of load_config (ConfigSpec)                                  *)
(***************************************************************************)
PresentInEnvironment(k) == environ0[k] # None

EnvironmentPriority ==
    config.state = "returned" =>
        \A k \in Keys : PresentInEnvironment(k) => config.value[k] = environ0[k]

\* C6 as stated: with API_TOKEN and API_URL both present in the environment the .env
\* file is never consulted, and a key set in the environment is returned with its
\* environment value.
C6_PresentNeverConsults ==
    config.state # "unloaded" =>
        /\ (PresentInEnvironment("API_TOKEN") /\ PresentInEnvironment("API_URL")
              => ~dotenv_loaded)
        /\ EnvironmentPriority

\* C6 amended: with API_TOKEN and API_URL both present and non-empty in the
\* environment the .env file is never consulted, and a key set in the environment is
\* returned with its environment value.
C6_NonEmptyNeverConsults ==
    config.state # "unloaded" =>
        /\ (Truthy(environ0["API_TOKEN"]) /\ Truthy(environ0["API_URL"]) => ~dotenv_loaded)
        /\ EnvironmentPriority

\* the environment held both API keys and the .env file held other values for every key
C6_Witness ==
    /\ config.state = "returned"
    /\ ~dotenv_loaded
    /\ dotenv_file = FileVal
    /\ environ0 = EnvVal

\* the value a key has once the environment, then the .env file, have been consulted
Resolved(k) == IF PresentInEnvironment(k) THEN environ0[k] ELSE dotenv_file[k]

\* C7 as stated: load_config raises exactly when API_TOKEN or API_URL is still unset
\* after both sources; warehouse credentials never matter; a return has all five keys.
C7_RaisesIffUnset ==
    config.state # "unloaded" =>
        /\ config.state = "raised"
             <=> (Resolved("API_TOKEN") = None \/ Resolved("API_URL") = None)
        /\ config.state = "returned" => DOMAIN config.value = Keys

\* C7 amended: load_config raises exactly when API_TOKEN or API_URL is still unset or
\* empty after both sources; warehouse credentials never matter; a return has all
\* five keys.
C7_RaisesIffUnsetOrEmpty ==
    config.state # "unloaded" =>
        /\ config.state = "raised"
             <=> (~Truthy(Resolved("API_TOKEN")) \/ ~Truthy(Resolved("API_URL")))
        /\ config.state = "returned" => DOMAIN config.value = Keys

\* the .env file supplied the API keys and no source had any warehouse credential
C7_Witness ==
    /\ config.state = "returned"
    /\ dotenv_loaded
    /\ \A k \in Keys \ {"API_TOKEN", "API_URL"} : config.value[k] = None

(***************************************************************************)
(* Properties of the partitioned writer (CaptureSpec)                      *)
(***************************************************************************)
SameUtcDay(a, b) == a.year = b.year /\ a.month = b.month /\ a.day = b.day

\* s is name lowercased with every space turned into a hyphen
IsNormalized(s, name) ==
    /\ Len(s) = Len(name)
    /\ \A i \in 1..Len(name) :
         s[i] = (IF name[i] = " " THEN "-" ELSE LowerChar(name[i]))

\* C8: two captures of one location on one UTC day have the same partition prefix,
\* whatever their time of day, and the prefix reads country/city/district/YYYY/MM/DD/
\* with the names lowercased and their spaces hyphenated.
C8_PartitionDependsOnLocationAndDay ==
    /\ \A i, j \in DOMAIN captures :
         captures[i].d = captures[j].d /\ SameUtcDay(captures[i].timestamp, captures[j].timestamp)
           => captures[i].partition = captures[j].partition
    /\ \A i \in DOMAIN captures :
         LET c == captures[i]
             parts == split(c.partition, "/")
         IN  /\ Len(parts) = 7
             /\ IsNormalized(parts[1], country)
             /\ IsNormalized(parts[2], city)
             /\ IsNormalized(parts[3], c.d)
             /\ parts[4] = ZeroPad(c.timestamp.year, 4)
             /\ parts[5] = ZeroPad(c.timestamp.month, 2)
             /\ parts[6] = ZeroPad(c.timestamp.day, 2)
             /\ parts[7] = << >>

\* a district with a space in its name was captured twice on one day, at different hours
C8_Witness ==
    /\ Len(captures) = 2
    /\ SameUtcDay(captures[1].timestamp, captures[2].timestamp)
    /\ captures[1].timestamp.hour # captures[2].timestamp.hour
    /\ \E i \in 1..Len(districts[loc]) : districts[loc][i] = " "

SecondOfDay(t) == (t.hour * 60 + t.minute) * 60 + t.second

\* b is at least one second after a, both on one day
AtLeastOneSecondAfter(a, b) ==
    \/ SecondOfDay(b) - SecondOfDay(a) >= 2
    \/ SecondOfDay(b) - SecondOfDay(a) = 1 /\ b.microsecond >= a.microsecond

AtLeastOneSecondApart(a, b) == AtLeastOneSecondAfter(a, b) \/ AtLeastOneSecondAfter(b, a)

\* C9: two captures of one location on one UTC day, at least one second apart, are
\* written to different local paths, and the earlier file still holds its own body.
C9_DistinctFilesWithinADay ==
    \A i, j \in DOMAIN captures :
        ( /\ i < j
          /\ captures[i].d = captures[j].d
          /\ SameUtcDay(captures[i].timestamp, captures[j].timestamp)
          /\ AtLeastOneSecondApart(captures[i].timestamp, captures[j].timestamp) )
        => /\ captures[i].local_file_path # captures[j].local_file_path
           /\ fs[captures[i].local_file_path] = captures[i].data
           /\ fs[captures[j].local_file_path] = captures[j].data

\* two captures within one minute, exactly one second apart, both on disk
C9_Witness ==
    /\ Len(captures) = 2
    /\ SameUtcDay(captures[1].timestamp, captures[2].timestamp)
    /\ captures[1].timestamp.hour = captures[2].timestamp.hour
    /\ AtLeastOneSecondApart(captures[1].timestamp, captures[2].timestamp)
    /\ Cardinality(DOMAIN fs) = 2

(***************************************************************************)
(* Properties of the deployment run (DeploySpec)                           *)
(***************************************************************************)
StrictlyAscending(files) ==
    \A i, j \in DOMAIN files : i < j => StrLess(files[i], files[j])

\* the stage's files are the directory's, in lexical order, and the files executed so
\* far are the first of them, in that order
ExecutedInLexicalOrder ==
    /\ StrictlyAscending(sql_files)
    /\ { sql_files[i] : i \in DOMAIN sql_files } = { dir_listing[i] : i \in DOMAIN dir_listing }
    /\ Len(sql_files) = Len(dir_listing)
    /\ Len(file_log) <= Len(sql_files)
    /\ \A i \in DOMAIN file_log : file_log[i].file = sql_files[i]

\* C2: deploy_ddl executes the files in lexical order; a file that fails is the last
\* one executed and makes deploy_ddl return False; deploy_ddl returns True only if
\* every file was executed and reported success.
C2_DdlStopsAtFirstFailure ==
    stage_fn = "deploy_ddl" =>
        /\ ExecutedInLexicalOrder
        /\ \A i \in DOMAIN file_log : ~file_log[i].ok => i = Len(file_log)
        /\ dpc = "ddl_loop" => \A i \in DOMAIN file_log : file_log[i].ok
        /\ dpc = "after_ddl" =>
             /\ (\E i \in DOMAIN file_log : ~file_log[i].ok) => ~success
             /\ success => /\ Len(file_log) = Len(sql_files)
                           /\ \A i \in DOMAIN file_log : file_log[i].ok

\* three schema files, the second failed: the third was not executed, the stage failed
C2_Witness ==
    /\ stage_fn = "deploy_ddl"
    /\ dpc = "after_ddl"
    /\ Len(sql_files) = 3
    /\ Len(file_log) = 2
    /\ ~file_log[2].ok
    /\ ~success

\* C3: deploy_dml executes every file in lexical order whatever the earlier files
\* reported, and returns True whichever of them failed.
C3_DmlRunsEveryFile ==
    stage_fn = "deploy_dml" =>
        /\ ExecutedInLexicalOrder
        /\ dpc = "dml_loop" => Len(file_log) = file_idx - 1
        /\ dpc = "after_dml" => Len(file_log) = Len(sql_files) /\ success

\* three data files, the second failed: the third was executed, the stage succeeded
C3_Witness ==
    /\ stage_fn = "deploy_dml"
    /\ dpc = "after_dml"
    /\ Len(file_log) = 3
    /\ ~file_log[2].ok
    /\ success

VerifyJustReturned ==
    dpc = "result" /\ calls # << >> /\ calls[Len(calls)].fn = "verify_deployment"

\* C4: verify_deployment attempts all five checks in their fixed order whichever of
\* them raise, and returns True exactly when none of them raised.
C4_VerifyAttemptsAllChecks ==
    VerifyJustReturned =>
        /\ verified.attempted = checks
        /\ verified.result <=> \A i \in DOMAIN verified.outcomes : ~verified.outcomes[i].raised
        /\ success = verified.result

\* exactly two of the five checks raised
C4_Witness ==
    /\ VerifyJustReturned
    /\ Cardinality({ i \in DOMAIN verified.outcomes : verified.outcomes[i].raised }) = 2
    /\ Len(verified.attempted) = 5
    /\ ~success

\* C5: main does not return without having called disconnect, and a session that
\* connect opened is eventually closed, whichever stage failed or raised.
C5_DisconnectAlwaysRuns ==
    /\ [](dpc = "exited" => disconnects >= 1)
    /\ (session = "open" ~> session = "closed")

\* a stage raised, main returned 1 and the session connect had opened is closed
C5_Witness ==
    /\ dpc = "exited"
    /\ ret = 1
    /\ session = "closed"
    /\ \E i \in DOMAIN calls : calls[i].result = "raised"

\* some step of the run failed: connect, deploy_ddl or verify_deployment returned
\* False, or a stage raised
RunFailed ==
    \E i \in DOMAIN calls :
        \/ calls[i].result = "raised"
        \/ /\ calls[i].fn \in {"connect", "deploy_ddl", "verify_deployment"}
           /\ calls[i].result = "False"

\* C11: main returns 1 when connect failed, deploy_ddl or verify_deployment reported
\* failure, or a stage raised, and returns 0 in every other run.
C11_ExitCodeReflectsOutcome ==
    dpc = "exited" =>
        /\ ret \in {0, 1}
        /\ ret = 1 <=> RunFailed

\* both file stages reported success, verification reported failure, main returned 1
C11_Witness ==
    /\ dpc = "exited"
    /\ ret = 1
    /\ \E i \in DOMAIN calls : calls[i] = Call("deploy_dml", "True")
    /\ \E i \in DOMAIN calls : calls[i] = Call("verify_deployment", "False")
    /\ \A i \in DOMAIN calls : calls[i].result # "raised"

Stages == {"deploy_ddl", "deploy_dml", "verify_deployment"}

\* the positions of main inside one of the three stages
InDdl    == dpc \in {"ddl_glob", "ddl_loop"}
InDml    == dpc \in {"dml_glob", "dml_loop"}
InVerify == dpc = "verify"

Returned(fn, result) == \E i \in DOMAIN calls : calls[i] = Call(fn, result)

\* C12: a stage starts only if everything run before it reported success: no stage
\* after a failed connect, deploy_dml only after deploy_ddl returned True, and
\* verify_deployment outside verify-only mode only after deploy_ddl and any
\* deploy_dml that ran returned True.
C12_StageStartsOnlyAfterSuccess ==
    /\ Returned("connect", "False") =>
         /\ ~(InDdl \/ InDml \/ InVerify)
         /\ \A i \in DOMAIN calls : calls[i].fn \notin Stages
    /\ (InDdl \/ InDml \/ InVerify) => \A i \in DOMAIN calls : calls[i].result = "True"
    /\ \A i \in DOMAIN calls :
         calls[i].fn \in Stages => \A j \in 1..(i - 1) : calls[j].result = "True"
    /\ InDml => Returned("deploy_ddl", "True")
    /\ \A i \in DOMAIN calls :
         calls[i].fn = "deploy_dml" => i > 1 /\ calls[i - 1] = Call("deploy_ddl", "True")
    /\ (InVerify /\ ~args.verify_only) => Returned("deploy_ddl", "True")
    /\ \A i \in DOMAIN calls :
         (calls[i].fn = "verify_deployment" /\ ~args.verify_only) =>
             \E j \in 1..(i - 1) : calls[j] = Call("deploy_ddl", "True")

\* verification is about to start after connect, deploy_ddl and deploy_dml all
\* returned True
C12_Witness ==
    /\ InVerify
    /\ ~args.verify_only
    /\ calls = << Call("connect", "True"), Call("deploy_ddl", "True"),
                  Call("deploy_dml", "True") >>

\* execute_sql_file has been called in the current stage
FileExecuted == last_exec.file # << >>

\* the numbers of the statements that reached the session
SubmittedNumbers == { last_exec.submitted[k].n : k \in DOMAIN last_exec.submitted }

\* C13: a statement that raises does not stop the statements after it, and
\* execute_sql_file returns True however many statements raised; it returns False
\* only when the file could not be read.
C13_StatementFailuresAreSwallowed ==
    FileExecuted =>
        /\ last_exec.result <=> last_exec.readable
        /\ \A k \in DOMAIN last_exec.submitted :
             last_exec.submitted[k].raised =>
                 \A i \in (last_exec.submitted[k].n + 1)..Len(last_exec.statements) :
                     ~IsComment(last_exec.statements[i]) => i \in SubmittedNumbers

\* two statements, both raised, both were submitted and the file reported True
C13_Witness ==
    /\ FileExecuted
    /\ Len(last_exec.submitted) = 2
    /\ \A k \in DOMAIN last_exec.submitted : last_exec.submitted[k].raised
    /\ last_exec.result

\* the path and the partition that lines 105-108 compute for the district and the
\* clock reading of the present iteration
PathOfIteration ==
    LocalFilePath(PartitionOf(districts[idx], strftime_year(timestamp),
                              strftime_month(timestamp), strftime_day(timestamp)),
                  FileName(strftime_compact(timestamp)))

StageOfIteration ==
    StgLocation(PartitionOf(districts[idx], strftime_year(timestamp),
                            strftime_month(timestamp), strftime_day(timestamp)))

\* every put and list of the iteration comes after a write of the same iteration,
\* and the put uploads the path that write wrote, to the partition of this district
PutUploadsThisIteration ==
    \A k \in DOMAIN iter_log :
        /\ iter_log[k].op = "put" =>
             /\ k > 1
             /\ iter_log[k - 1].op = "write"
             /\ iter_log[k - 1].path = iter_log[k].path
             /\ iter_log[k].path = PathOfIteration
             /\ iter_log[k].stage = StageOfIteration
        /\ iter_log[k].op = "list" => k > 1 /\ iter_log[k - 1].op = "put"

\* the request, the status check or the parsing failed in this step
FetchFailed ==
    pc \in {"request", "raise_for_status", "json"} /\ pc' = "loop"

\* C14: an iteration whose HTTP request or JSON parsing failed writes no file and
\* performs no put and no list, so every put uploads the file written in the same
\* iteration for the same district.
C14_FailedFetchUploadsNothing ==
    /\ [][FetchFailed => \A k \in DOMAIN iter_log' : iter_log'[k].op = "get"]_vars
    /\ [](pc = "loop" /\ handled = "http" => Len(iter_log) = 1)
    /\ []PutUploadsThisIteration

\* the first district failed with an HTTP error, the second was written and put
C14_Witness ==
    /\ idx = 2
    /\ pc = "list"
    /\ handled = "http"
    /\ Len(iter_log) = 3
    /\ iter_log[3].op = "put"
    /\ iter_log[3].path = PathOfIteration

\* C15: verify_deployment returns True only when each of its five existence checks
\* found at least one object.
C15_VerifyTrueOnlyIfObjectsFound ==
    (VerifyJustReturned /\ verified.result) =>
        \A i \in DOMAIN verified.outcomes : verified.outcomes[i].count >= 1

\* verify_deployment has been entered or has returned in this run
VerifyInvoked ==
    InVerify \/ \E i \in DOMAIN calls : calls[i].fn = "verify_deployment"

SubmittedStatements ==
    [k \in DOMAIN last_exec.submitted |-> last_exec.submitted[k].stmt]

\* C17: for a file that was read, execute_sql_file submits every non-empty
\* semicolon-delimited statement exactly once, in the order of the file.
C17_SubmitsEveryStatementOnceInOrder ==
    (FileExecuted /\ last_exec.readable) =>
        /\ SubmittedStatements = last_exec.statements
        /\ \A k \in DOMAIN last_exec.submitted : last_exec.submitted[k].n = k

(***************************************************************************)
(* Properties of the dashboard filter pages (PageSpec)                     *)
(***************************************************************************)
Shown(label) == \E i \in DOMAIN widgets : widgets[i] = Widget(label)

TrendQueryIssued == \E i \in DOMAIN queries : queries[i].q = "trend"

\* a value was chosen in the selectbox with this label
SelectedIn(label, option) == Shown(label) /\ option # PyNone /\ option # EmptyStr

\* C18: the filters cascade: the pollutant selector is shown and the trend query is
\* issued only when a date has been selected in the date selectbox, and the date
\* selectbox is shown only after a country and a city (and, on the district page,
\* a district) have been selected.
C18_FiltersCascade ==
    /\ Shown("Select Pollutant to Visualize:") => SelectedIn("Select Date", date_option)
    /\ TrendQueryIssued => SelectedIn("Select Date", date_option)
    /\ Shown("Select Date") =>
         /\ SelectedIn("Select Country", country_option)
         /\ SelectedIn("Select City", city_option)
         /\ page = DistrictPage => SelectedIn("Select District", district_option)

====
